---- MODULE Spec2Model ----
(***************************************************************************)
(* State-machine model of fedmsg_atomic_composer/composer.py:              *)
(* AtomicComposer.consume running on the hub's reactor thread, and one     *)
(* AtomicComposer.compose worker thread per reactor.callInThread call.     *)
(*                                                                         *)
(* A path is a sequence of path components (strings).  The filesystem is   *)
(* the set of existing directories (dirs) and of existing regular files    *)
(* and symlinks (files).  Every external command is started by one action  *)
(* (subprocess.Popen) and finished by another (p.communicate returning),   *)
(* so that commands of concurrent threads overlap; a command that never    *)
(* finishes is a worker that hangs.                                        *)
(***************************************************************************)
EXTENDS Integers, Sequences, FiniteSets, TLC

VARIABLES
    releases,   \* self.releases: release identifier -> release dict
    config,     \* self.output_dir and self.log_dir: the path templates
    dirs,       \* existing directories
    files,      \* existing regular files and symlinks
    pc,         \* pc[t]: position of worker thread t inside compose(); one entry
                \* per reactor.callInThread(self.compose, release) call so far
    release,    \* release[t]: the release dict handed to thread t
    rc,         \* rc[t]: returncode of the last command thread t waited for, as
                \* long as t is inside compose() (0 before the first and at the end)
    steps,      \* steps[t]: the methods of compose() thread t has entered, in order
    cmds,       \* cmds[t]: the argument vectors thread t has passed to self.call
    hub         \* what the most recent step was (the reactor's consume call or a worker step)

vars == <<releases, config, dirs, files, pc, release, rc, steps, cmds, hub>>

-----------------------------------------------------------------------------
(* Bounds of the model *)

\* at most MaxRuns events are accepted, i.e. at most MaxRuns worker threads exist
MaxRuns == 2

\* number of directory names tempfile.mkdtemp can draw from
NumTmp == 2

\* the worker threads started so far
Threads == 1..Len(pc)

-----------------------------------------------------------------------------
(* Paths: os.path.join, os.path.dirname, os.path.basename, os.path.isdir *)

NoPath == <<>>

Join(p, name) == Append(p, name)

Dirname(p) == IF Len(p) = 0 THEN p ELSE SubSeq(p, 1, Len(p) - 1)

Basename(p) == IF Len(p) = 0 THEN "" ELSE p[Len(p)]

IsPrefix(p, q) == Len(p) <= Len(q) /\ SubSeq(q, 1, Len(p)) = p

\* p and every leading part of p (what os.makedirs creates)
Ancestors(p) == { SubSeq(p, 1, n) : n \in 1..Len(p) }

IsDir(p) == p \in dirs

\* everything below and including p
Under(p, set) == { q \in set : IsPrefix(p, q) }

-----------------------------------------------------------------------------
(* The hub configuration that __init__ copies onto the consumer *)

\* self.git_repo
GitRepo == <<"git.example.org", "fedora-atomic.git">>

\* self.output_dir and self.log_dir: str.format templates.  A component is
\* either literal text or a replacement field {key}.
Lit(s) == [kind |-> "lit", v |-> s]
Fld(k) == [kind |-> "field", v |-> k]

\* The hub configuration is not part of the source: the model starts from
\* either of two configurations.  In the first the templates name the release
\* and output_dir ends with the tree name; in the second they are plain paths.
Configs ==
    { [output_dir |-> <<Lit("srv"), Lit("fedora-atomic"), Fld("name"), Fld("tree")>>,
       log_dir |-> <<Lit("srv"), Lit("fedora-atomic"), Lit("logs"), Fld("name")>>],
      [output_dir |-> <<Lit("srv"), Lit("fedora-atomic"), Lit("repo")>>,
       log_dir |-> <<Lit("srv"), Lit("fedora-atomic"), Lit("logs")>>] }

\* self.releases
ReleaseConfig ==
    ("rawhide" :> [name |-> "rawhide", mock |-> "fedora-rawhide-x86_64",
                   tree |-> "docker-host", git_branch |-> "master",
                   treefile |-> "rawhide-tree"])
    @@ ("f40" :> [name |-> "f40", mock |-> "fedora-40-x86_64",
                  tree |-> "docker-host", git_branch |-> "f40",
                  treefile |-> "f40-tree"])
    @@ ("f39-updates" :> [name |-> "f39-updates", mock |-> "fedora-39-x86_64",
                          tree |-> "docker-host", git_branch |-> "f39",
                          treefile |-> "f39-tree"])

\* template.format(**release)
Format(template, rel) ==
    [i \in 1..Len(template) |->
        IF template[i].kind = "field" THEN rel[template[i].v] ELSE template[i].v]

-----------------------------------------------------------------------------
(* Incoming messages *)

\* a topic is the sequence of its dot-separated parts; 'x' in topic is the
\* test that the parts of x occur contiguously in the topic
Contains(topic, marker) ==
    \E i \in 0..(Len(topic) - Len(marker)) :
        SubSeq(topic, i + 1, i + Len(marker)) = marker

Topics ==
    { <<"compose", "rawhide", "rsync">>,
      <<"compose", "branched", "rsync">>,
      <<"bodhi", "updates", "fedora", "sync">>,
      <<"compose", "rawhide", "branched">>,
      <<"branched", "updates", "fedora">>,
      <<"bodhi", "updates", "epel", "sync">>,
      <<"buildsys", "build", "state">> }

Branches == {"f40"}
Logs == {"done", "start"}
Repos == {"updates", "testing"}

\* msg['body'] = {'topic': ..., 'msg': {'arch', 'branch', 'log', 'release', 'repo'}}
Messages ==
    { [body |-> [topic |-> t,
                 msg |-> [arch |-> "x86_64", branch |-> b, log |-> l,
                          release |-> "39", repo |-> rp]]] :
        t \in Topics, b \in Branches, l \in Logs, rp \in Repos }

-----------------------------------------------------------------------------
(* consume(): classification of the message, lines 54-76 *)

None == "<None>"

\* 'f%(release)s-%(repo)s' % body['msg']
FormatUpdates(m) == "f" \o m.release \o "-" \o m.repo

\* Classify with the elif chain started at 'branched' (differs from the code)
ClassifyBranchedFirst(msg) ==
    LET body == msg.body
        topic == body.topic
    IN  IF Contains(topic, <<"branched">>)
        THEN IF body.msg.log # "done"
             THEN [ret |-> TRUE, repo |-> None, warn |-> "Compose not done?"]
             ELSE [ret |-> FALSE, repo |-> body.msg.branch, warn |-> ""]
        ELSE IF Contains(topic, <<"rawhide">>)
        THEN [ret |-> FALSE, repo |-> "rawhide", warn |-> ""]
        ELSE IF Contains(topic, <<"updates", "fedora">>)
        THEN [ret |-> FALSE, repo |-> FormatUpdates(body.msg), warn |-> ""]
        ELSE [ret |-> FALSE, repo |-> None, warn |-> "Unknown topic"]

\* Classify without the return after 'Compose not done?' (differs from the code)
ClassifyWithoutReturn(msg) ==
    LET body == msg.body
        topic == body.topic
    IN  IF Contains(topic, <<"rawhide">>)
        THEN [ret |-> FALSE, repo |-> "rawhide", warn |-> ""]
        ELSE IF Contains(topic, <<"branched">>)
        THEN [ret |-> FALSE, repo |-> body.msg.branch,
              warn |-> IF body.msg.log # "done" THEN "Compose not done?" ELSE ""]
        ELSE IF Contains(topic, <<"updates", "fedora">>)
        THEN [ret |-> FALSE, repo |-> FormatUpdates(body.msg), warn |-> ""]
        ELSE [ret |-> FALSE, repo |-> None, warn |-> "Unknown topic"]

\* the if/elif chain: ret is TRUE where the code returns early, repo is the
\* value of the local variable repo when the chain is left
Classify(msg) ==
    LET body == msg.body
        topic == body.topic
    IN  IF Contains(topic, <<"rawhide">>)
        THEN [ret |-> FALSE, repo |-> "rawhide", warn |-> ""]
        ELSE IF Contains(topic, <<"branched">>)
        THEN IF body.msg.log # "done"
             THEN [ret |-> TRUE, repo |-> None, warn |-> "Compose not done?"]
             ELSE [ret |-> FALSE, repo |-> body.msg.branch, warn |-> ""]
        ELSE IF Contains(topic, <<"updates", "fedora">>)
        THEN [ret |-> FALSE, repo |-> FormatUpdates(body.msg), warn |-> ""]
        ELSE [ret |-> FALSE, repo |-> None, warn |-> "Unknown topic"]

-----------------------------------------------------------------------------
(* consume(): lines 78-84 *)

NoMsg == [body |-> [topic |-> <<>>,
                    msg |-> [arch |-> "", branch |-> "", log |-> "",
                             release |-> "", repo |-> ""]]]

\* the record kept in hub: which method ran last, on which thread (0 is the
\* reactor thread), and for consume its argument, the value of repo, the last
\* warning logged and how the call ended
Step(op, t, msg, repo, warn, result) ==
    [op |-> op, thread |-> t, msg |-> msg, repo |-> repo, warn |-> warn,
     result |-> result]

\* hub after a step of a worker thread: the reactor is not inside consume
WorkerStep == Step("", 0, NoMsg, None, "", "")

\* the directories tempfile.mkdtemp() can create: new entries of /tmp
TmpDirs == { <<"tmp", "tmp" \o ToString(i)>> : i \in 1..NumTmp }

\* copy.deepcopy(self.releases[repo]) with tmp_dir, output_dir and log_dir set;
\* the loop formats output_dir first and log_dir with output_dir already expanded
SetKey(rel, k, v) == (k :> v) @@ rel

ExpandRelease(rel, tmp) ==
    LET r1 == SetKey(rel, "tmp_dir", tmp)
        r2 == SetKey(r1, "output_dir", Format(config.output_dir, r1))
    IN  SetKey(r2, "log_dir", Format(config.log_dir, r2))

\* reactor.callInThread(self.compose, release)
CallInThread(rel) ==
    /\ pc' = Append(pc, "update_configs")
    /\ release' = Append(release, rel)
    /\ rc' = Append(rc, 0)
    /\ steps' = Append(steps, <<>>)
    /\ cmds' = Append(cmds, <<>>)

\* Consume with tempfile.mkdtemp() called before self.releases[repo] is
\* looked up (differs from the code)
ConsumeMkdtempFirst(msg) ==
    LET c == Classify(msg) IN
    /\ Len(pc) < MaxRuns
    /\ UNCHANGED <<releases, config, files>>
    /\ IF c.ret
       THEN /\ hub' = Step("consume", 0, msg, c.repo, c.warn, "return")
            /\ UNCHANGED <<dirs, pc, release, rc, steps, cmds>>
       ELSE \/ /\ hub' = Step("consume", 0, msg, c.repo, c.warn, "OSError")
               /\ UNCHANGED <<dirs, pc, release, rc, steps, cmds>>
            \/ \E tmp \in TmpDirs \ dirs :
               /\ dirs' = dirs \cup {tmp}
               /\ IF c.repo \notin DOMAIN releases
                  THEN /\ hub' = Step("consume", 0, msg, c.repo, c.warn, "KeyError")
                       /\ UNCHANGED <<pc, release, rc, steps, cmds>>
                  ELSE /\ CallInThread(ExpandRelease(releases[c.repo], tmp))
                       /\ hub' = Step("consume", 0, msg, c.repo, c.warn,
                                      "callInThread")

\* Consume that merges an event into a run of the same release that is still
\* in flight (differs from the code)
ConsumeDeduplicating(msg) ==
    LET c == Classify(msg) IN
    /\ Len(pc) < MaxRuns
    /\ UNCHANGED <<releases, config, files>>
    /\ IF c.ret
       THEN /\ hub' = Step("consume", 0, msg, c.repo, c.warn, "return")
            /\ UNCHANGED <<dirs, pc, release, rc, steps, cmds>>
       ELSE IF c.repo \notin DOMAIN releases
       THEN /\ hub' = Step("consume", 0, msg, c.repo, c.warn, "KeyError")
            /\ UNCHANGED <<dirs, pc, release, rc, steps, cmds>>
       ELSE IF \E t \in Threads : /\ pc[t] \notin {"done", "raised"}
                                  /\ release[t].name = releases[c.repo].name
       THEN /\ hub' = Step("consume", 0, msg, c.repo, c.warn, "merged")
            /\ UNCHANGED <<dirs, pc, release, rc, steps, cmds>>
       ELSE \/ /\ hub' = Step("consume", 0, msg, c.repo, c.warn, "OSError")
               /\ UNCHANGED <<dirs, pc, release, rc, steps, cmds>>
            \/ \E tmp \in TmpDirs \ dirs :
               /\ dirs' = dirs \cup {tmp}
               /\ CallInThread(ExpandRelease(releases[c.repo], tmp))
               /\ hub' = Step("consume", 0, msg, c.repo, c.warn, "callInThread")

\* Consume that handles an event only when no earlier run is still executing,
\* as a handler that ran the pipeline itself would (differs from the code)
ConsumeBlocking(msg) ==
    LET c == Classify(msg) IN
    /\ Len(pc) < MaxRuns
    /\ \A t \in Threads : pc[t] \in {"done", "raised"}
    /\ UNCHANGED <<releases, config, files>>
    /\ IF c.ret
       THEN /\ hub' = Step("consume", 0, msg, c.repo, c.warn, "return")
            /\ UNCHANGED <<dirs, pc, release, rc, steps, cmds>>
       ELSE IF c.repo \notin DOMAIN releases
       THEN /\ hub' = Step("consume", 0, msg, c.repo, c.warn, "KeyError")
            /\ UNCHANGED <<dirs, pc, release, rc, steps, cmds>>
       ELSE \/ /\ hub' = Step("consume", 0, msg, c.repo, c.warn, "OSError")
               /\ UNCHANGED <<dirs, pc, release, rc, steps, cmds>>
            \/ \E tmp \in TmpDirs \ dirs :
               /\ dirs' = dirs \cup {tmp}
               /\ CallInThread(ExpandRelease(releases[c.repo], tmp))
               /\ hub' = Step("consume", 0, msg, c.repo, c.warn, "callInThread")

\* Consume that schedules the run with the name of a scratch directory and
\* leaves its creation to the worker (differs from the code)
ConsumeAllocatingLater(msg) ==
    LET c == Classify(msg) IN
    /\ Len(pc) < MaxRuns
    /\ UNCHANGED <<releases, config, files, dirs>>
    /\ IF c.ret
       THEN /\ hub' = Step("consume", 0, msg, c.repo, c.warn, "return")
            /\ UNCHANGED <<pc, release, rc, steps, cmds>>
       ELSE IF c.repo \notin DOMAIN releases
       THEN /\ hub' = Step("consume", 0, msg, c.repo, c.warn, "KeyError")
            /\ UNCHANGED <<pc, release, rc, steps, cmds>>
       ELSE \E tmp \in TmpDirs \ dirs :
               /\ CallInThread(ExpandRelease(releases[c.repo], tmp))
               /\ hub' = Step("consume", 0, msg, c.repo, c.warn, "callInThread")

\* Consume with one fixed scratch directory for every run in place of
\* tempfile.mkdtemp() (differs from the code)
ConsumeFixedScratch(msg) ==
    LET c == Classify(msg)
        tmp == <<"tmp", "tmp1">>
    IN
    /\ Len(pc) < MaxRuns
    /\ UNCHANGED <<releases, config, files>>
    /\ IF c.ret
       THEN /\ hub' = Step("consume", 0, msg, c.repo, c.warn, "return")
            /\ UNCHANGED <<dirs, pc, release, rc, steps, cmds>>
       ELSE IF c.repo \notin DOMAIN releases
       THEN /\ hub' = Step("consume", 0, msg, c.repo, c.warn, "KeyError")
            /\ UNCHANGED <<dirs, pc, release, rc, steps, cmds>>
       ELSE /\ dirs' = dirs \cup {tmp}
            /\ CallInThread(ExpandRelease(releases[c.repo], tmp))
            /\ hub' = Step("consume", 0, msg, c.repo, c.warn, "callInThread")

\* Consume working on self.releases[repo] itself, without copy.deepcopy: the
\* keys it sets are set in the configured dict (differs from the code)
ConsumeWithoutCopy(msg) ==
    LET c == Classify(msg) IN
    /\ Len(pc) < MaxRuns
    /\ UNCHANGED <<config, files>>
    /\ IF c.ret
       THEN /\ hub' = Step("consume", 0, msg, c.repo, c.warn, "return")
            /\ UNCHANGED <<releases, dirs, pc, release, rc, steps, cmds>>
       ELSE IF c.repo \notin DOMAIN releases
       THEN /\ hub' = Step("consume", 0, msg, c.repo, c.warn, "KeyError")
            /\ UNCHANGED <<releases, dirs, pc, release, rc, steps, cmds>>
       ELSE \/ /\ hub' = Step("consume", 0, msg, c.repo, c.warn, "OSError")
               /\ UNCHANGED <<releases, dirs, pc, release, rc, steps, cmds>>
            \/ \E tmp \in TmpDirs \ dirs :
               /\ dirs' = dirs \cup {tmp}
               /\ releases' = [releases EXCEPT
                                 ![c.repo] = ExpandRelease(releases[c.repo], tmp)]
               /\ CallInThread(ExpandRelease(releases[c.repo], tmp))
               /\ hub' = Step("consume", 0, msg, c.repo, c.warn, "callInThread")

Consume(msg) ==
    LET c == Classify(msg) IN
    /\ Len(pc) < MaxRuns
    /\ UNCHANGED <<releases, config, files>>
    /\ IF c.ret
       THEN \* return after the warning
            /\ hub' = Step("consume", 0, msg, c.repo, c.warn, "return")
            /\ UNCHANGED <<dirs, pc, release, rc, steps, cmds>>
       ELSE IF c.repo \notin DOMAIN releases
       THEN \* self.releases[repo] raises KeyError
            /\ hub' = Step("consume", 0, msg, c.repo, c.warn, "KeyError")
            /\ UNCHANGED <<dirs, pc, release, rc, steps, cmds>>
       ELSE \/ \* tempfile.mkdtemp() raises
               /\ hub' = Step("consume", 0, msg, c.repo, c.warn, "OSError")
               /\ UNCHANGED <<dirs, pc, release, rc, steps, cmds>>
            \/ \E tmp \in TmpDirs \ dirs :
               /\ dirs' = dirs \cup {tmp}
               /\ CallInThread(ExpandRelease(releases[c.repo], tmp))
               /\ hub' = Step("consume", 0, msg, c.repo, c.warn, "callInThread")

-----------------------------------------------------------------------------
(* External commands: the argument vectors handed to call() *)

NoCmd == [prog |-> "", opt |-> "", r |-> "", configdir |-> NoPath, sh |-> "",
          repo |-> NoPath, treefile |-> NoPath, logfile |-> NoPath,
          branch |-> "", dest |-> NoPath]

\* ['git', 'clone', '-b', release['git_branch'], self.git_repo, git_dir]
GitClone(branch, dest) ==
    [NoCmd EXCEPT !.prog = "git", !.opt = "clone", !.branch = branch, !.dest = dest]

\* MockCmd run against mock's default configuration directory instead of
\* release['mock_dir'] (differs from the code)
MockCmdDefaultConfig(rel, opt) ==
    [NoCmd EXCEPT !.prog = "/usr/bin/mock", !.opt = opt, !.r = rel.mock,
                  !.configdir = <<"etc", "mock">>]

\* ['/usr/bin/mock', '-r', release['mock'], '--configdir=' + release['mock_dir']] + cmd
MockCmd(rel, opt) ==
    [NoCmd EXCEPT !.prog = "/usr/bin/mock", !.opt = opt, !.r = rel.mock,
                  !.configdir = rel.mock_dir]

\* mock_shell: cmd is ['--shell', <shell command line>]
MockShell(rel, sh, repo, treefile, logfile) ==
    [MockCmd(rel, "--shell") EXCEPT !.sh = sh, !.repo = repo,
                                    !.treefile = treefile, !.logfile = logfile]

\* '/var/lib/mock/%s' % release['mock']
MockRoot(rel) == <<"var", "lib", "mock", rel.mock>>

\* the directory os.path.join(base, release['tree']) tested by ostree_init
OstreeOut(rel) == Join(Dirname(rel.output_dir), rel.tree)

\* what a command needs in order to exit with 0
CanSucceed(c) ==
    CASE c.prog = "git" -> IsDir(Dirname(c.dest)) /\ ~IsDir(c.dest)
      [] c.opt = "--init" -> IsDir(c.configdir)
      [] c.opt = "--update" -> IsDir(c.configdir) /\ IsDir(<<"var", "lib", "mock", c.r>>)
      [] c.sh = "ostree init" -> IsDir(c.configdir) /\ IsDir(Dirname(c.logfile))
      [] c.sh = "rpm-ostree compose tree" ->
            /\ IsDir(c.configdir) /\ IsDir(Dirname(c.logfile))
            /\ IsDir(c.repo) /\ c.treefile \in files
      [] c.sh = "ostree summary" -> IsDir(c.configdir) /\ IsDir(c.repo)
      [] OTHER -> FALSE

\* the directories a command leaves behind when it exits with 0
DirsMade(c) ==
    CASE c.prog = "git" -> {c.dest}
      [] c.opt = "--init" -> {<<"var", "lib", "mock", c.r>>}
      [] c.sh = "ostree init" -> {c.repo}
      [] OTHER -> {}

\* the directories a command may leave behind when it exits with non-zero: a
\* clone that fails may or may not have removed its target again
DirsLeft(c) == IF c.prog = "git" /\ IsDir(Dirname(c.dest)) THEN {c.dest} ELSE {}

\* the files a command leaves behind when it exits with 0: the log its output
\* is redirected to (the content of a repository is not modelled)
FilesMade(c) == IF c.logfile # NoPath THEN {c.logfile} ELSE {}

\* a shell redirection >logfile creates the file whatever the command does
Redirected(c) ==
    IF c.logfile # NoPath /\ IsDir(Dirname(c.logfile)) /\ IsDir(c.configdir)
    THEN {c.logfile} ELSE {}

-----------------------------------------------------------------------------
(* compose(): the worker thread, lines 86-93 *)

\* AfterMethod with ostree_compose called right after init_mock, ostree_init
\* left out (differs from the code)
AfterMethodSkipping(method) ==
    CASE method = "update_configs" -> "generate_mock_config"
      [] method = "generate_mock_config" -> "init_mock"
      [] method = "init_mock" -> "ostree_compose"
      [] method = "ostree_init" -> "ostree_compose"
      [] method = "ostree_compose" -> "update_ostree_summary"
      [] method = "update_ostree_summary" -> "cleanup"
      [] method = "cleanup" -> "done"

\* the statement of compose() that follows the method a thread is in
AfterMethod(method) ==
    CASE method = "update_configs" -> "generate_mock_config"
      [] method = "generate_mock_config" -> "init_mock"
      [] method = "init_mock" -> "ostree_init"
      [] method = "ostree_init" -> "ostree_compose"
      [] method = "ostree_compose" -> "update_ostree_summary"
      [] method = "update_ostree_summary" -> "cleanup"
      [] method = "cleanup" -> "done"

Waiting(method) == method \o ":wait"

Methods == {"update_configs", "generate_mock_config", "init_mock", "ostree_init",
            "ostree_compose", "update_ostree_summary", "cleanup"}

\* the method whose command thread t waits for
WaitingIn(t) == CHOOSE m \in Methods : pc[t] = Waiting(m)

\* thread t enters a method of compose()
Enter(t, method) == steps' = [steps EXCEPT ![t] = Append(@, method)]

\* subprocess.Popen(cmd, ...) in call(), for thread t inside `method`
Popen(t, method, c) ==
    /\ cmds' = [cmds EXCEPT ![t] = Append(@, c)]
    /\ pc' = [pc EXCEPT ![t] = Waiting(method)]

\* an exception leaves compose(): the thread ends, nothing after it runs
Raise(t) ==
    /\ pc' = [pc EXCEPT ![t] = "raised"]
    /\ rc' = [rc EXCEPT ![t] = 0]

\* Continue with a non-zero returncode ending the run (differs from the code)
ContinueUnlessFailed(method, code) ==
    IF code # 0 THEN "cleanup" ELSE AfterMethod(method)

\* where a thread goes when call() has returned `code` inside `method`:
\* no caller looks at the returncode
Continue(method, code) == AfterMethod(method)

\* p.communicate() returns in call(), lines 165-170: the command has ended
\* with some returncode and call() returns it to mock_cmd / update_configs
CallReturns(t) ==
    /\ t \in Threads
    /\ \E m \in Methods : pc[t] = Waiting(m)
    /\ LET m == WaitingIn(t)
           c == cmds[t][Len(cmds[t])]
       IN  /\ \/ /\ CanSucceed(c)
                 /\ rc' = [rc EXCEPT ![t] = 0]
                 /\ dirs' = dirs \cup DirsMade(c)
                 /\ files' = files \cup FilesMade(c)
              \/ /\ rc' = [rc EXCEPT ![t] = 1]
                 /\ dirs' = dirs \cup DirsLeft(c)
                 /\ files' = files \cup Redirected(c)
              \/ /\ rc' = [rc EXCEPT ![t] = 1]
                 /\ UNCHANGED dirs
                 /\ files' = files \cup Redirected(c)
           /\ pc' = [pc EXCEPT ![t] = Continue(m, rc'[t])]
    /\ hub' = WorkerStep
    /\ UNCHANGED <<releases, config, release, steps, cmds>>

\* UpdateConfigs with the clone made in a fixed directory of /tmp instead of
\* the run's tmp_dir (differs from the code)
UpdateConfigsSharedClone(t) ==
    /\ t \in Threads
    /\ pc[t] = "update_configs"
    /\ LET git_dir == Join(<<"tmp">>, Basename(GitRepo))
           rel == SetKey(release[t], "git_dir", git_dir)
       IN  /\ release' = [release EXCEPT ![t] = rel]
           /\ Popen(t, "update_configs", GitClone(rel.git_branch, git_dir))
    /\ Enter(t, "update_configs")
    /\ hub' = WorkerStep
    /\ UNCHANGED <<releases, config, dirs, files, rc>>

\* update_configs(), lines 99-104
UpdateConfigs(t) ==
    /\ t \in Threads
    /\ pc[t] = "update_configs"
    /\ LET git_dir == Join(release[t].tmp_dir, Basename(GitRepo))
           rel == SetKey(release[t], "git_dir", git_dir)
       IN  /\ release' = [release EXCEPT ![t] = rel]
           /\ Popen(t, "update_configs", GitClone(rel.git_branch, git_dir))
    /\ Enter(t, "update_configs")
    /\ hub' = WorkerStep
    /\ UNCHANGED <<releases, config, dirs, files, rc>>

\* generate_mock_config(), lines 123-132
GenerateMockConfig(t) ==
    /\ t \in Threads
    /\ pc[t] = "generate_mock_config"
    /\ Enter(t, "generate_mock_config")
    /\ LET mock_dir == Join(release[t].tmp_dir, "mock")
           rel == SetKey(release[t], "mock_dir", mock_dir)
           mock_cfg == Join(mock_dir, rel.mock \o ".cfg")
           links == { Join(mock_dir, cfg) : cfg \in {"site-defaults.cfg", "logging.ini"} }
       IN  /\ release' = [release EXCEPT ![t] = rel]
           /\ \/ \* os.mkdir(mock_dir) raises
                 /\ Raise(t)
                 /\ UNCHANGED <<dirs, files>>
              \/ /\ IsDir(Dirname(mock_dir)) /\ ~IsDir(mock_dir)
                 /\ dirs' = dirs \cup {mock_dir}
                 /\ files' = files \cup links \cup {mock_cfg}
                 /\ pc' = [pc EXCEPT ![t] = AfterMethod("generate_mock_config")]
                 /\ UNCHANGED rc
    /\ hub' = WorkerStep
    /\ UNCHANGED <<releases, config, cmds>>

\* InitMockOption without the os.path.isdir(root) test (differs from the code)
InitMockOptionAlwaysInit(rootSeen) == "--init"

\* the mock command init_mock chooses, given what os.path.isdir(root) returned
InitMockOption(rootSeen) == IF ~rootSeen THEN "--init" ELSE "--update"

\* InitMock holding a lock on the chroot root: it waits while another thread
\* runs its init_mock command on the same root (differs from the code)
InitMockLocked(t) ==
    /\ t \in Threads
    /\ pc[t] = "init_mock"
    /\ \A u \in Threads \ {t} :
          pc[u] = Waiting("init_mock") => MockRoot(release[u]) # MockRoot(release[t])
    /\ Enter(t, "init_mock")
    /\ Popen(t, "init_mock",
             MockCmd(release[t], InitMockOption(IsDir(MockRoot(release[t])))))
    /\ hub' = WorkerStep
    /\ UNCHANGED <<releases, config, dirs, files, release, rc>>

\* init_mock(), lines 113-121, up to the Popen inside mock_cmd(), lines 108-110
InitMock(t) ==
    /\ t \in Threads
    /\ pc[t] = "init_mock"
    /\ Enter(t, "init_mock")
    /\ Popen(t, "init_mock",
             MockCmd(release[t], InitMockOption(IsDir(MockRoot(release[t])))))
    /\ hub' = WorkerStep
    /\ UNCHANGED <<releases, config, dirs, files, release, rc>>

\* NeedsOstreeInit without the os.path.isdir(out) test (differs from the code)
NeedsOstreeInitAlways(outSeen) == TRUE

\* whether ostree_init runs `ostree init`, given what isdir(out) returned
NeedsOstreeInit(outSeen) == ~outSeen

\* ostree_init(), lines 137-148, up to the Popen inside mock_cmd()
OstreeInit(t) ==
    /\ t \in Threads
    /\ pc[t] = "ostree_init"
    /\ Enter(t, "ostree_init")
    /\ LET rel == release[t]
           base == Dirname(rel.output_dir)
           out == OstreeOut(rel)
           logfile == Join(rel.log_dir, "ostree.log")
           withBase == dirs \cup Ancestors(base)
           withLogs == withBase \cup Ancestors(rel.log_dir)
       IN  \/ \* os.makedirs(base) raises
              /\ ~IsDir(base)
              /\ Raise(t)
              /\ UNCHANGED <<dirs, cmds>>
           \/ \* os.makedirs(release['log_dir']) raises
              /\ rel.log_dir \notin withBase
              /\ dirs' = withBase
              /\ Raise(t)
              /\ UNCHANGED cmds
           \/ /\ dirs' = withLogs
              /\ IF NeedsOstreeInit(out \in withLogs)
                 THEN Popen(t, "ostree_init",
                            MockShell(rel, "ostree init", out, NoPath, logfile))
                 ELSE /\ pc' = [pc EXCEPT ![t] = AfterMethod("ostree_init")]
                      /\ UNCHANGED cmds
              /\ UNCHANGED rc
    /\ hub' = WorkerStep
    /\ UNCHANGED <<releases, config, files, release>>

\* ostree_compose(), lines 150-157
OstreeCompose(t) ==
    /\ t \in Threads
    /\ pc[t] = "ostree_compose"
    /\ Enter(t, "ostree_compose")
    /\ LET rel == release[t]
           logfile == Join(rel.log_dir, "rpm-ostree.log")
           treefile == Join(rel.git_dir, "treefile.json")
       IN  \/ \* file(treefile, 'w') raises IOError: git_dir is missing
              /\ ~IsDir(rel.git_dir)
              /\ Raise(t)
              /\ UNCHANGED <<files, cmds>>
           \/ /\ IsDir(rel.git_dir)
              /\ files' = files \cup {treefile}
              /\ Popen(t, "ostree_compose",
                       MockShell(rel, "rpm-ostree compose tree", rel.output_dir,
                                 treefile, logfile))
              /\ UNCHANGED rc
    /\ hub' = WorkerStep
    /\ UNCHANGED <<releases, config, dirs, release>>

\* update_ostree_summary(), lines 172-176
UpdateOstreeSummary(t) ==
    /\ t \in Threads
    /\ pc[t] = "update_ostree_summary"
    /\ Enter(t, "update_ostree_summary")
    /\ Popen(t, "update_ostree_summary",
             MockShell(release[t], "ostree summary", release[t].output_dir,
                       NoPath, NoPath))
    /\ hub' = WorkerStep
    /\ UNCHANGED <<releases, config, dirs, files, release, rc>>

\* cleanup(), lines 95-97: shutil.rmtree(release['tmp_dir'])
Cleanup(t) ==
    /\ t \in Threads
    /\ pc[t] = "cleanup"
    /\ Enter(t, "cleanup")
    /\ LET tmp == release[t].tmp_dir
       IN  \/ \* shutil.rmtree raises
              /\ Raise(t)
              /\ UNCHANGED <<dirs, files>>
           \/ /\ IsDir(tmp)
              /\ dirs' = dirs \ Under(tmp, dirs)
              /\ files' = files \ Under(tmp, files)
              /\ pc' = [pc EXCEPT ![t] = AfterMethod("cleanup")]
              /\ rc' = [rc EXCEPT ![t] = 0]
    /\ hub' = WorkerStep
    /\ UNCHANGED <<releases, config, release, cmds>>

-----------------------------------------------------------------------------

Init ==
    /\ releases = ReleaseConfig
    /\ config \in Configs
    /\ dirs = { <<"tmp">>, <<"etc">>, <<"etc", "mock">>,
                <<"var">>, <<"var", "lib">>, <<"var", "lib", "mock">> }
    /\ files = {}
    /\ pc = <<>>
    /\ release = <<>>
    /\ rc = <<>>
    /\ steps = <<>>
    /\ cmds = <<>>
    /\ hub = Step("init", 0, NoMsg, None, "", "")

Next ==
    \/ \E msg \in Messages : Consume(msg)
    \/ \E t \in 1..MaxRuns :
        \/ UpdateConfigs(t)
        \/ CallReturns(t)
        \/ GenerateMockConfig(t)
        \/ InitMock(t)
        \/ OstreeInit(t)
        \/ OstreeCompose(t)
        \/ UpdateOstreeSummary(t)
        \/ Cleanup(t)

Spec == Init /\ [][Next]_vars

\* the steps of worker thread t
Worker(t) ==
    \/ UpdateConfigs(t)
    \/ CallReturns(t)
    \/ GenerateMockConfig(t)
    \/ InitMock(t)
    \/ OstreeInit(t)
    \/ OstreeCompose(t)
    \/ UpdateOstreeSummary(t)
    \/ Cleanup(t)

\* Spec with the worker threads scheduled and every external command
\* returning: as long as some thread can take a step, some thread takes one
FairSpec == Spec /\ WF_vars(\E t \in 1..MaxRuns : Worker(t))

-----------------------------------------------------------------------------
(* Vocabulary of the properties *)

Range(seq) == { seq[i] : i \in 1..Len(seq) }

Count(seq, x) == Cardinality({ i \in 1..Len(seq) : seq[i] = x })

\* thread t has left compose(), by returning or by an exception
Ended(t) == pc[t] \in {"done", "raised"}

\* the steps 2-6 of the pipeline
LaterSteps == {"generate_mock_config", "init_mock", "ostree_init",
               "ostree_compose", "update_ostree_summary"}

\* the clone of step 1 is the only command thread t has run and it failed
CloneFailed(t) ==
    /\ Len(cmds[t]) = 1
    /\ cmds[t][1].prog = "git"
    /\ pc[t] # Waiting("update_configs")
    /\ rc[t] # 0

\* the topic of a message carries none of the three markers
Unrecognised(msg) ==
    /\ ~Contains(msg.body.topic, <<"rawhide">>)
    /\ ~Contains(msg.body.topic, <<"branched">>)
    /\ ~Contains(msg.body.topic, <<"updates", "fedora">>)

\* the step just taken was consume(msg) for some message
Consumed == hub'.op = "consume"

\* consume left the filesystem, the threads and the configuration as they were
NothingScheduled ==
    UNCHANGED <<releases, config, dirs, files, pc, release, rc, steps, cmds>>

-----------------------------------------------------------------------------
(* C1: every run that was scheduled removes its scratch directory, and      *)
(* removes it exactly once, whichever step failed: once a thread has left   *)
(* compose() it has run cleanup exactly once and its tmp_dir is gone.       *)
C1_ScratchRemovedOnEveryExit ==
    \A t \in Threads :
        Ended(t) =>
            /\ Count(steps[t], "cleanup") = 1
            /\ \/ ~IsDir(release[t].tmp_dir)
               \/ \E u \in Threads : u # t /\ ~Ended(u)
                                     /\ release[u].tmp_dir = release[t].tmp_dir

(* C2: when the clone of step 1 exits with non-zero the run aborts: none of *)
(* the steps 2-6 is executed, and the scratch directory is still removed.   *)
C2_CloneFailureAborts ==
    \A t \in Threads :
        CloneFailed(t) =>
            /\ Range(steps[t]) \cap LaterSteps = {}
            /\ Ended(t) => ~IsDir(release[t].tmp_dir)

(* C3: a message whose topic carries none of the markers is dropped after a *)
(* warning: consume returns normally, creates no scratch directory and      *)
(* schedules no run.                                                        *)
C3_UnknownTopicDropped ==
    [][ (Consumed /\ Unrecognised(hub'.msg)) =>
            (hub'.result = "return" /\ hub'.warn # "" /\ NothingScheduled) ]_vars

(* C4: a message handled by the branched rule (its topic carries the        *)
(* branched marker and not the rawhide marker, which is tested first) whose *)
(* log is not "done" schedules no run and changes nothing: consume returns  *)
(* before any release is looked up and before any directory is made.        *)
BranchedRule(msg) ==
    /\ ~Contains(msg.body.topic, <<"rawhide">>)
    /\ Contains(msg.body.topic, <<"branched">>)

C5_ClassificationInOrder ==
    hub.op = "consume" =>
        LET topic == hub.msg.body.topic
            m == hub.msg.body.msg
            skipped == hub.result = "return" /\ hub.repo = None
            gives(id) == hub.result # "return" /\ hub.repo = id /\ id # None
        IN  /\ Contains(topic, <<"rawhide">>) => gives("rawhide")
            /\ BranchedRule(hub.msg) /\ m.log = "done" => gives(m.branch)
            /\ BranchedRule(hub.msg) /\ m.log # "done" => skipped
            /\ (/\ ~Contains(topic, <<"rawhide">>)
                /\ ~Contains(topic, <<"branched">>)
                /\ Contains(topic, <<"updates", "fedora">>))
               => gives("f" \o m.release \o "-" \o m.repo)
            /\ hub.result = "callInThread" =>
                  release[Len(release)].name = releases[hub.repo].name

C5_Witness ==
    /\ hub.op = "consume"
    /\ Contains(hub.msg.body.topic, <<"rawhide">>)
    /\ Contains(hub.msg.body.topic, <<"branched">>)
    /\ hub.msg.body.msg.log # "done"
    /\ hub.repo = "rawhide"
    /\ hub.result = "callInThread"
    /\ \E t \in Threads : release[t].name = "f39-updates"

(* C6: when the identifier a message classifies to is not a key of the      *)
(* release mapping, consume fails with the lookup error, schedules no run   *)
(* and has created no scratch directory.                                    *)
C6_UnknownReleaseIsConfigError ==
    [][ (/\ Consumed
         /\ hub'.result # "return"
         /\ hub'.repo # None
         /\ hub'.repo \notin DOMAIN releases) =>
            (hub'.result = "KeyError" /\ NothingScheduled) ]_vars

C6_Witness ==
    /\ hub.op = "consume"
    /\ hub.repo = "f39-testing"
    /\ hub.result = "KeyError"
    /\ \A tmp \in TmpDirs : ~IsDir(tmp)

(* C7: a non-zero exit of the command of any of the steps 3-6 is advisory:  *)
(* whatever the returncode, the thread goes on with the next step, and the  *)
(* summary command is issued once the compose command has returned.         *)
C7_StepAfter ==
    [init_mock |-> "ostree_init", ostree_init |-> "ostree_compose",
     ostree_compose |-> "update_ostree_summary", update_ostree_summary |-> "cleanup"]

C7_LaterFailuresAdvisory ==
    [][ \A t \in Threads :
          /\ \A m \in DOMAIN C7_StepAfter :
                (pc[t] = Waiting(m) /\ pc'[t] # pc[t]) => pc'[t] = C7_StepAfter[m]
          /\ (pc[t] = "update_ostree_summary" /\ pc'[t] # pc[t]) =>
                /\ Len(cmds'[t]) = Len(cmds[t]) + 1
                /\ cmds'[t][Len(cmds'[t])].sh = "ostree summary"
                /\ cmds'[t][Len(cmds'[t])].repo = release[t].output_dir ]_vars

C7_Witness ==
    \E t \in Threads :
        /\ pc[t] = Waiting("update_ostree_summary")
        /\ rc[t] # 0
        /\ cmds[t][Len(cmds[t])].sh = "ostree summary"
        /\ cmds[t][Len(cmds[t]) - 1].sh = "rpm-ostree compose tree"

(* C8: the repository init command is invoked at most once per repository   *)
(* path, across all runs.                                                   *)
OstreeInits(path) ==
    { <<t, i>> \in Threads \X (1..7) :
        /\ i <= Len(cmds[t])
        /\ cmds[t][i].sh = "ostree init"
        /\ cmds[t][i].repo = path }

C8_InitAtMostOncePerRepository ==
    \A t \in Threads : Cardinality(OstreeInits(OstreeOut(release[t]))) <= 1

(* C8 as amended: step 4 issues the repository init command exactly when    *)
(* the repository path does not exist at the moment it is tested; a run     *)
(* that finds the path existing issues no init command.                     *)
C8_InitExactlyWhenSeenMissing ==
    [][ \A t \in Threads :
          (pc[t] = "ostree_init" /\ pc'[t] \notin {"ostree_init", "raised"}) =>
             LET out == OstreeOut(release[t]) IN
             IF out \in dirs'
             THEN cmds'[t] = cmds[t] /\ pc'[t] = "ostree_compose"
             ELSE /\ pc'[t] = Waiting("ostree_init")
                  /\ Len(cmds'[t]) = Len(cmds[t]) + 1
                  /\ cmds'[t][Len(cmds'[t])].sh = "ostree init"
                  /\ cmds'[t][Len(cmds'[t])].repo = out ]_vars

C8_Witness ==
    \E t, u \in Threads :
        /\ t # u
        /\ OstreeOut(release[t]) = OstreeOut(release[u])
        /\ OstreeInits(OstreeOut(release[u])) = {<<u, 3>>}
        /\ pc[t] = "ostree_compose"
        /\ IsDir(OstreeOut(release[t]))

(* C9: concurrently executing runs for different releases never touch a     *)
(* path inside each other's scratch directory, and never write to each      *)
(* other's output directory, repository path or log directory.              *)
CmdPaths(c) == {c.configdir, c.repo, c.treefile, c.logfile, c.dest} \ {NoPath}

\* the paths outside /tmp that belong to the run of thread t
OutputPaths(t) == {release[t].output_dir, OstreeOut(release[t]), release[t].log_dir}

\* the paths the commands of thread t have named so far
Touched(t) == UNION { CmdPaths(cmds[t][i]) : i \in 1..Len(cmds[t]) }

Concurrent(t, u) == t # u /\ ~Ended(t) /\ ~Ended(u)

InTmp(p) == IsPrefix(<<"tmp">>, p) /\ Len(p) > 1

\* thread t takes the step: it moves, or it is started by it
Acts(t) == IF t \in DOMAIN pc THEN pc'[t] # pc[t] ELSE t \in DOMAIN pc'

ChangedPaths ==
    (dirs' \ dirs) \cup (dirs \ dirs') \cup (files' \ files) \cup (files \ files')

C10_DirectorySteps == {"generate_mock_config", "ostree_init"}

\* the step of the pipeline proper that thread t entered last
LastPipelineStep(t) ==
    LET proper == SelectSeq(steps[t], LAMBDA m : m # "cleanup")
    IN  IF proper = <<>> THEN "" ELSE proper[Len(proper)]

C10_CleanupAttemptedAfterException ==
    \A t \in Threads :
        (pc[t] = "raised" /\ LastPipelineStep(t) \in C10_DirectorySteps) =>
            "cleanup" \in Range(steps[t])

-----------------------------------------------------------------------------
\* the step just taken was consume(msg) for a message that is recognised, not
\* ignored, and whose release identifier is configured
AcceptedEvent ==
    /\ Consumed
    /\ hub'.result # "return"
    /\ hub'.repo \in DOMAIN releases

\* the step started exactly one new thread, for the release of the message,
\* and left the threads there were alone
OneRunScheduled ==
    /\ Len(pc') = Len(pc) + 1
    /\ SubSeq(pc', 1, Len(pc)) = pc
    /\ SubSeq(release', 1, Len(release)) = release
    /\ pc'[Len(pc')] = "update_configs"
    /\ release'[Len(pc')].name = releases[hub'.repo].name

(* C11: every accepted event schedules exactly one run of its own.          *)
C11_EveryAcceptedEventSchedules ==
    [][ AcceptedEvent => OneRunScheduled ]_vars

(* C11 as amended: every accepted event whose scratch directory could be    *)
(* allocated schedules exactly one run of its own, also while runs of the   *)
(* same release are in flight; an accepted event whose allocation fails     *)
(* schedules none, and neither does an event that is not accepted.          *)
C11_OneRunPerAllocatedEvent ==
    [][ /\ AcceptedEvent =>
             IF hub'.result = "OSError" THEN NothingScheduled ELSE OneRunScheduled
        /\ (Consumed /\ ~AcceptedEvent) => NothingScheduled ]_vars

C11_Witness ==
    /\ hub.op = "consume"
    /\ hub.result = "callInThread"
    /\ \E t, u \in Threads :
          /\ t < u /\ u = Len(pc)
          /\ release[t].name = release[u].name
          /\ release[u].name = releases[hub.repo].name
          /\ pc[t] = Waiting("init_mock")

-----------------------------------------------------------------------------
\* consume started no external process and waited for none: the commands and
\* the positions of the threads there were are as before, and a thread it
\* started has issued nothing yet
NoProcessInvoked ==
    /\ SubSeq(cmds', 1, Len(cmds)) = cmds
    /\ SubSeq(pc', 1, Len(pc)) = pc
    /\ SubSeq(rc', 1, Len(rc)) = rc
    /\ \A t \in DOMAIN cmds' \ DOMAIN cmds :
          cmds'[t] = <<>> /\ pc'[t] = "update_configs"

(* C12: the event handler never waits for pipeline work.  Whatever the      *)
(* worker threads are doing, executing or hung inside an external command,  *)
(* every message can be consumed; and consuming a message starts no         *)
(* external process and moves no thread.                                    *)
C12_HandlerNeverWaits ==
    /\ [](Len(pc) < MaxRuns => \A msg \in Messages : ENABLED Consume(msg))
    /\ [][ Consumed => NoProcessInvoked ]_vars

C12_Witness ==
    /\ hub.op = "consume"
    /\ hub.result = "callInThread"
    /\ Len(pc) = 2
    /\ pc[1] = Waiting("ostree_compose")
    /\ pc[2] = "update_configs"

-----------------------------------------------------------------------------
(* C13: the scratch directory of a run is created by consume before the run *)
(* is scheduled.  A thread that has not started step 1 yet has its tmp_dir  *)
(* on disk; the consume step that schedules a run is the step that creates  *)
(* that run's tmp_dir; and when the allocation fails the error is the       *)
(* outcome of consume and nothing is scheduled.                             *)
C13_ScratchBeforeScheduling ==
    /\ [](\A t \in Threads : pc[t] = "update_configs" => IsDir(release[t].tmp_dir))
    /\ [][ Consumed =>
             /\ hub'.result = "OSError" => NothingScheduled
             /\ \A t \in DOMAIN pc' \ DOMAIN pc :
                   /\ hub'.result = "callInThread"
                   /\ release'[t].tmp_dir \in dirs' \ dirs
             /\ hub'.result = "callInThread" => Len(pc') = Len(pc) + 1 ]_vars

C13_Witness ==
    /\ hub.op = "consume"
    /\ hub.result = "OSError"
    /\ Len(pc) = 1
    /\ pc[1] = "update_configs"
    /\ IsDir(release[1].tmp_dir)

-----------------------------------------------------------------------------
\* thread t issues a command in the step, and Issued(t) is that command
Issues(t) == Len(cmds'[t]) = Len(cmds[t]) + 1

Issued(t) == cmds'[t][Len(cmds'[t])]

(* C14: every mock command a run issues (--init, --update and every         *)
(* --shell command) carries --configdir, and the directory is the mock      *)
(* directory inside the run's own tmp_dir; when the command is issued,      *)
(* generate_mock_config of the same run has been entered and the directory  *)
(* exists, and it lies in the tmp_dir of no other run that has not ended.   *)
C14_ConfigDirOfOwnRun ==
    [][ \A t \in Threads :
          (Issues(t) /\ Issued(t).prog # "git") =>
             LET c == Issued(t) IN
             /\ c.prog = "/usr/bin/mock"
             /\ c.configdir # NoPath
             /\ c.configdir = Join(release[t].tmp_dir, "mock")
             /\ "generate_mock_config" \in Range(steps[t])
             /\ IsDir(c.configdir)
             /\ \A u \in Threads \ {t} :
                   ~Ended(u) => ~IsPrefix(release[u].tmp_dir, c.configdir) ]_vars

C14_Witness ==
    /\ Len(pc) = 2
    /\ pc[1] = Waiting("ostree_init")
    /\ pc[2] = Waiting("init_mock")
    /\ release[1].mock = release[2].mock
    /\ cmds[1][Len(cmds[1])].configdir # cmds[2][Len(cmds[2])].configdir
    /\ cmds[1][2].opt = "--init"

-----------------------------------------------------------------------------
\* the statements of compose(), lines 87-93, in order
PipelineOrder ==
    <<"update_configs", "generate_mock_config", "init_mock", "ostree_init",
      "ostree_compose", "update_ostree_summary", "cleanup">>

\* the steps of thread t are the first steps of the pipeline, each once
InOrder(t) ==
    /\ Len(steps[t]) <= Len(PipelineOrder)
    /\ steps[t] = SubSeq(PipelineOrder, 1, Len(steps[t]))

\* a step is entered only by a thread that is between two steps, its
\* previous command having returned, and it is the step the thread is at
EntersInTurn(t) ==
    Len(steps'[t]) # Len(steps[t]) =>
        /\ pc[t] \in Methods
        /\ steps'[t] = Append(steps[t], pc[t])
        /\ pc'[t] \in {Waiting(pc[t]), AfterMethod(pc[t]), "raised"}

-----------------------------------------------------------------------------
(* C16: there is no mutual exclusion between runs, of the same release or   *)
(* not: a thread that is between two commands can always take its next      *)
(* step, whatever the other threads are doing; in particular init_mock,     *)
(* ostree_init and ostree_compose are never held back by a run that is      *)
(* inside the same step for the same chroot root or repository.             *)
C16_NoMutualExclusion ==
    \A t \in Threads :
        /\ pc[t] = "init_mock" => ENABLED InitMock(t)
        /\ pc[t] = "ostree_init" => ENABLED OstreeInit(t)
        /\ pc[t] = "ostree_compose" => ENABLED OstreeCompose(t)
        /\ pc[t] = "update_ostree_summary" => ENABLED UpdateOstreeSummary(t)

\* two runs of one release have both found the chroot root absent and issued
\* --init for it, have both found the repository absent and issued ostree
\* init for it, and are both inside the compose command on one output_dir
C16_Witness ==
    /\ Len(pc) = 2
    /\ release[1].name = release[2].name
    /\ \A t \in {1, 2} :
          /\ pc[t] = Waiting("ostree_compose")
          /\ Len(cmds[t]) = 4
          /\ cmds[t][2].opt = "--init"
          /\ cmds[t][3].sh = "ostree init"
          /\ cmds[t][4].sh = "rpm-ostree compose tree"
    /\ cmds[1][2].r = cmds[2][2].r
    /\ cmds[1][3].repo = cmds[2][3].repo
    /\ cmds[1][4].repo = cmds[2][4].repo

-----------------------------------------------------------------------------
\* the clone directory and the mock directory of thread t, as far as they are
\* set, lie inside its tmp_dir
OwnDirsInScratch(t) ==
    /\ "git_dir" \in DOMAIN release[t] =>
          /\ IsPrefix(release[t].tmp_dir, release[t].git_dir)
          /\ release[t].git_dir # release[t].tmp_dir
    /\ "mock_dir" \in DOMAIN release[t] =>
          /\ IsPrefix(release[t].tmp_dir, release[t].mock_dir)
          /\ release[t].mock_dir # release[t].tmp_dir

(* C17: any two runs, whenever they were started, have different scratch    *)
(* directories (no path is handed out twice), and the clone directory and   *)
(* the mock directory of a run lie inside its scratch directory.            *)
C17_ScratchNeverReused ==
    \A t \in Threads :
        /\ OwnDirsInScratch(t)
        /\ \A u \in Threads \ {t} : release[t].tmp_dir # release[u].tmp_dir

(* C17 as amended: two runs have the same scratch directory path only when  *)
(* one of them has returned and removed it before the other was started;    *)
(* runs that exist at the same time, of the same release or not, and runs   *)
(* whose scratch directory was left on disk, have different ones.  The      *)
(* clone directory and the mock directory lie inside the scratch directory. *)
C17_ScratchUniqueWhileItExists ==
    \A t \in Threads :
        /\ OwnDirsInScratch(t)
        /\ \A u \in Threads \ {t} :
              release[t].tmp_dir = release[u].tmp_dir =>
                 /\ pc[IF t < u THEN t ELSE u] = "done"
                 /\ "cleanup" \in Range(steps[IF t < u THEN t ELSE u])

C17_Witness ==
    /\ Len(pc) = 2
    /\ pc[1] = "done"
    /\ release[2].tmp_dir = release[1].tmp_dir
    /\ release[2].name = release[1].name
    /\ pc[2] = "init_mock"
    /\ IsDir(release[2].git_dir)
    /\ IsDir(release[2].mock_dir)

-----------------------------------------------------------------------------
(* C18: whenever the compose command or the summary command is issued, the  *)
(* repository path it is given is the path ostree_init of the same run has  *)
(* tested with os.path.isdir (and initialised if it was missing).           *)
C18_ComposeOnCheckedRepository ==
    \A t \in Threads : \A i \in 1..Len(cmds[t]) :
        cmds[t][i].sh \in {"rpm-ostree compose tree", "ostree summary"} =>
            /\ "ostree_init" \in Range(steps[t])
            /\ cmds[t][i].repo = OstreeOut(release[t])

-----------------------------------------------------------------------------
\* the keys a run adds to its release dict or rewrites in it
RunFields == {"tmp_dir", "output_dir", "log_dir", "git_dir", "mock_dir"}

\* the release dict of thread t is the configured one of its release, with
\* nothing but keys of RunFields added
CopyOfConfigured(rel) ==
    /\ rel.name \in DOMAIN releases
    /\ DOMAIN rel \ RunFields = DOMAIN releases[rel.name]
    /\ \A k \in DOMAIN releases[rel.name] : rel[k] = releases[rel.name][k]

(* C19: the configured releases are left as they were loaded by every       *)
(* consume call and every worker step and carry none of the keys a run      *)
(* adds; the release dict of a run is a copy of the configured one plus     *)
(* those keys, and it is changed by steps of that run only.                 *)
C19_ReleaseConfigurationUntouched ==
    /\ [](/\ releases = ReleaseConfig
          /\ \A k \in DOMAIN releases : DOMAIN releases[k] \cap RunFields = {}
          /\ \A t \in Threads : CopyOfConfigured(release[t]))
    /\ [][ /\ releases' = releases
           /\ config' = config
           /\ \A t \in Threads : release'[t] # release[t] => pc'[t] # pc[t] ]_vars

C19_Witness ==
    /\ Len(pc) = 2
    /\ release[1].name = release[2].name
    /\ pc[1] = Waiting("init_mock")
    /\ pc[2] = "init_mock"
    /\ release[1].git_dir # release[2].git_dir
    /\ release[1].mock_dir # release[2].mock_dir
    /\ releases = ReleaseConfig

-----------------------------------------------------------------------------
\* the chroot preparation commands among the commands of thread t
Preparations(t) ==
    { i \in 1..Len(cmds[t]) : cmds[t][i].opt \in {"--init", "--update"} }

(* C20: in init_mock a run issues exactly one chroot preparation command:   *)
(* mock --init when /var/lib/mock/<mock> is not a directory at the moment   *)
(* the run tests it, mock --update when it is.  No run issues both, and     *)
(* none issues a preparation command outside init_mock.                     *)
C20_OnePreparationCommand ==
    /\ [](\A t \in Threads :
            /\ Cardinality(Preparations(t)) <= 1
            /\ Cardinality(Preparations(t)) = Count(steps[t], "init_mock"))
    /\ [][ \A t \in Threads :
             (pc[t] = "init_mock" /\ pc'[t] # pc[t]) =>
                /\ Issues(t)
                /\ Issued(t).prog = "/usr/bin/mock"
                /\ Issued(t).r = release[t].mock
                /\ Issued(t).opt = IF IsDir(MockRoot(release[t]))
                                   THEN "--update" ELSE "--init"
                /\ pc'[t] = Waiting("init_mock") ]_vars

C20_Witness ==
    /\ Len(pc) = 2
    /\ pc[2] = Waiting("init_mock")
    /\ cmds[2][2].opt = "--update"
    /\ cmds[1][2].opt = "--init"
    /\ MockRoot(release[1]) = MockRoot(release[2])
    /\ IsDir(MockRoot(release[2]))

====
